---- MODULE Spec2Model ----
(***************************************************************************)
(* A model of grabble-solver's word-discovery engine (src/grabble_logic.py):*)
(* the Trie, the letter bitmasks, the anagram search and GameState with its *)
(* queries, mutations and (de)serialization.                                *)
(*                                                                          *)
(* A Python str is a sequence of one-character strings; a list of letters   *)
(* is the same kind of sequence.  A dict is a function on its key set; a    *)
(* dict whose iteration order the code relies on (TrieNode.children) is a   *)
(* sequence of keys in insertion order.                                     *)
(***************************************************************************)
EXTENDS Integers, Sequences, FiniteSets, TLC

VARIABLES
    trie,                    \* GameState.trie: node path -> TrieNode
    word_bits,               \* GameState.word_bits: dictionary word -> bitmask
    pool,                    \* GameState.pool: list of letters
    existing_words,          \* GameState.existing_words: list of words
    existing_word_counters,  \* GameState.existing_word_counters: word -> Counter
    existing_word_bits,      \* GameState.existing_word_bits: word -> bitmask
    loads,                   \* number of wordlists loaded so far
    op,                      \* the last call made on the GameState: [name, arg]
    before,                  \* the game state that call started from
    ret                      \* what that call returned or raised: [exc, val]

vars == <<trie, word_bits, pool, existing_words, existing_word_counters,
          existing_word_bits, loads, op, before, ret>>

game == <<pool, existing_words, existing_word_counters, existing_word_bits>>

-----------------------------------------------------------------------------
(* Bounds of the model *)

MaxPool == 3        \* letters in the pool
MaxExisting == 2    \* entries of existing_words
MaxLoads == 1       \* wordlists loaded
MaxLetters == 3     \* letters handed to anagram

-----------------------------------------------------------------------------
(* Characters and strings *)

Alphabet ==
    <<"a","b","c","d","e","f","g","h","i","j","k","l","m",
      "n","o","p","q","r","s","t","u","v","w","x","y","z">>

UpperCase ==
    <<"A","B","C","D","E","F","G","H","I","J","K","L","M",
      "N","O","P","Q","R","S","T","U","V","W","X","Y","Z">>

Whitespace == {" ", "\n"}

Range(s) == {s[i] : i \in DOMAIN s}

\* str.isalpha() on one ASCII character
isalpha(c) == c \in Range(Alphabet) \cup Range(UpperCase)

\* str.lower() on one character
lower_char(c) ==
    IF c \in Range(UpperCase)
    THEN Alphabet[CHOOSE i \in DOMAIN UpperCase : UpperCase[i] = c]
    ELSE c

\* str.lower()
lower(s) == [i \in DOMAIN s |-> lower_char(s[i])]

\* str.strip(): leading and trailing whitespace removed
strip(s) ==
    LET keep == {i \in DOMAIN s : s[i] \notin Whitespace}
    IN  IF keep = {} THEN <<>>
        ELSE LET lo == CHOOSE i \in keep : \A j \in keep : i <= j
                 hi == CHOOSE i \in keep : \A j \in keep : j <= i
             IN  SubSeq(s, lo, hi)

\* list.remove(x): the list without the first occurrence of x
list_remove(s, x) ==
    LET i == CHOOSE k \in DOMAIN s : s[k] = x /\ \A j \in 1..(k-1) : s[j] # x
    IN  SubSeq(s, 1, i-1) \o SubSeq(s, i+1, Len(s))

\* collections.Counter(s): letter -> number of occurrences, for the letters of s
Counter(s) == [c \in Range(s) |-> Cardinality({i \in DOMAIN s : s[i] = c})]

\* Counter.__getitem__ / dict.get(c, 0): a missing key counts 0
count_of(counter, c) == IF c \in DOMAIN counter THEN counter[c] ELSE 0

\* dict.__setitem__ and del dict[key]
dict_set(d, k, v) == [x \in DOMAIN d \cup {k} |-> IF x = k THEN v ELSE d[x]]
dict_del(d, k) == [x \in DOMAIN d \ {k} |-> d[x]]

-----------------------------------------------------------------------------
(* Letter bitmasks: an int whose bit i is set iff chr(97 + i) occurs *)

Pow2(n) == 2 ^ n

\* GameState.letter_to_bit = {chr(i + 97): 1 << i for i in range(26)}
letter_to_bit == [c \in Range(Alphabet) |->
                    Pow2((CHOOSE i \in DOMAIN Alphabet : Alphabet[i] = c) - 1)]

has_bit(x, i) == (x \div Pow2(i)) % 2 = 1

RECURSIVE bits_of(_)
bits_of(S) == IF S = {} THEN 0
              ELSE LET i == CHOOSE j \in S : TRUE
                   IN  Pow2(i) + bits_of(S \ {i})

BitPositions == 0..(Len(Alphabet) - 1)

\* x | y, x & y, x & ~y on 26-bit masks
bit_or(x, y) == bits_of({i \in BitPositions : has_bit(x, i) \/ has_bit(y, i)})
bit_and(x, y) == bits_of({i \in BitPositions : has_bit(x, i) /\ has_bit(y, i)})
bit_and_not(x, y) == bits_of({i \in BitPositions : has_bit(x, i) /\ ~has_bit(y, i)})

\* bin(x).count('1') and int.bit_length()
bit_count(x) == Cardinality({i \in BitPositions : has_bit(x, i)})
bit_length(x) ==
    IF x = 0 THEN 0
    ELSE 1 + (CHOOSE i \in BitPositions :
                 has_bit(x, i) /\ \A j \in BitPositions : has_bit(x, j) => j <= i)

\* letter_to_bit[c] raises KeyError for a character that is no lower-case letter
bits_key_error(word) == \E i \in DOMAIN word : word[i] \notin DOMAIN letter_to_bit

\* GameState.calculate_word_bits: the OR of the bits of the word's letters
RECURSIVE calculate_word_bits(_)
calculate_word_bits(word) ==
    IF word = <<>> THEN 0
    ELSE bit_or(calculate_word_bits(Tail(word)), letter_to_bit[Head(word)])

-----------------------------------------------------------------------------
(* Trie: a node is named by the path of letters from the root *)

\* TrieNode.__init__
TrieNode == [children |-> <<>>, is_word |-> FALSE, word |-> <<"None">>]

root == <<>>

\* Trie.__init__
EmptyTrie == (root :> TrieNode)

\* insert_from with `node.is_word = True` done at every node of the path
RECURSIVE insert_marking_path(_, _, _)
insert_marking_path(t, word, i) ==
    LET node == SubSeq(word, 1, i - 1)
        t0 == [t EXCEPT ![node].is_word = TRUE, ![node].word = node]
    IN  IF i > Len(word) THEN t0
        ELSE LET char == word[i]
                 child == Append(node, char)
                 t1 == IF char \in Range(t0[node].children) THEN t0
                       ELSE (child :> TrieNode) @@
                            [t0 EXCEPT ![node].children = Append(@, char)]
             IN  insert_marking_path(t1, word, i + 1)

\* Trie.insert, from the i-th character of word on, standing at node
RECURSIVE insert_from(_, _, _)
insert_from(t, word, i) ==
    LET node == SubSeq(word, 1, i - 1)
    IN  IF i > Len(word)
        THEN [t EXCEPT ![node].is_word = TRUE, ![node].word = word]
        ELSE LET char == word[i]
                 child == Append(node, char)
                 t1 == IF char \in Range(t[node].children) THEN t
                       ELSE (child :> TrieNode) @@
                            [t EXCEPT ![node].children = Append(@, char)]
             IN  insert_from(t1, word, i + 1)

insert(t, word) == insert_from(t, word, 1)

\* in_trie, from the i-th character of word on, standing at node
RECURSIVE in_trie_from(_, _, _)
in_trie_from(t, word, i) ==
    LET node == SubSeq(word, 1, i - 1)
    IN  IF i > Len(word) THEN t[node].is_word
        ELSE IF word[i] \notin Range(t[node].children) THEN FALSE
        ELSE in_trie_from(t, word, i + 1)

in_trie(t, word) == in_trie_from(t, word, 1)

-----------------------------------------------------------------------------
(* Anagram search *)

\* the inner generator _anagram and its loop over node.children, from child i on
RECURSIVE anagram_walk(_, _, _)
RECURSIVE anagram_children(_, _, _, _)
anagram_walk(t, letter_counts, path) ==
    (IF t[path].is_word THEN <<path>> ELSE <<>>)
        \o anagram_children(t, letter_counts, path, 1)

\* anagram_children with `letter_counts[letter] -= 1` left out
RECURSIVE anagram_children_keeping_count(_, _, _, _)
anagram_children_keeping_count(t, letter_counts, path, i) ==
    IF i > Len(t[path].children) THEN <<>>
    ELSE LET letter == t[path].children[i]
             count == count_of(letter_counts, letter)
         IN  (IF count = 0 THEN <<>>
              ELSE anagram_walk(t, letter_counts, Append(path, letter)))
             \o anagram_children_keeping_count(t, letter_counts, path, i + 1)

anagram_children(t, letter_counts, path, i) ==
    IF i > Len(t[path].children) THEN <<>>
    ELSE LET letter == t[path].children[i]
             count == count_of(letter_counts, letter)
         IN  (IF count = 0 THEN <<>>
              ELSE anagram_walk(t, [letter_counts EXCEPT ![letter] = @ - 1],
                                Append(path, letter)))
             \o anagram_children(t, letter_counts, path, i + 1)

trie_is_empty(t) == t[root].children = <<>>

\* anagram(game_state, letters): the words it yields, in order (the caller checks
\* trie_is_empty first: iterating it raises ValueError on an empty trie)
anagram(t, letters) == anagram_walk(t, Counter(letters), root)

-----------------------------------------------------------------------------
(* Results of a call *)

Returned(v) == [exc |-> "none", val |-> v]
Raised(e) == [exc |-> e, val |-> <<>>]
None == <<"None">>

TrieEmptyError == "ValueError: Trie is empty. Make sure the wordlist is loaded."
InvalidFormatError == "ValueError: Invalid input format. Please use the exported format."

-----------------------------------------------------------------------------
(* Inputs *)

\* wordlists: raw lines, as read from a file or passed to load_words
WordLists ==
    { << <<"b","e","\n">>, <<"B","e","e","\n">>, <<"b","e","t","\n">>,
         <<"e","b","b","s","\n">>, <<"b","e","g">> >>,
      << <<"b","e","e">>, <<"\n">>, <<"b","e">> >> }

\* a wordlist that holds nothing but a blank line
BlankWordList == << <<"\n">> >>

\* single lines handed to load_word, and words asked of in_trie
TrieLines ==
    { <<"b","e">>, <<"B","e","e","\n">>, <<"b","e","t">>, <<"e","b">>,
      <<"t">>, <<"\n">> }
TrieLetters == {"b", "e", "t"}

\* strings typed in for add_letters
LetterInputs == { <<"e">>, <<"B">>, <<"b","s">> }
PoolInputs == LetterInputs \cup { <<"1">> }

\* strings typed in for delete_letters
DeleteInputs == { <<"e">>, <<"B","e">>, <<"e","e">>, <<"1","z">>, <<"S">> }

\* words given to add_existing_word
ExistingInputs == { <<"b","e">>, <<"b","e","e">> }

-----------------------------------------------------------------------------
(* GameState *)

\* the game state as one value: the four fields the mutations touch
GS(p, ew, ewc, ewb) ==
    [pool |-> p, existing_words |-> ew,
     existing_word_counters |-> ewc, existing_word_bits |-> ewb]

Game == GS(pool, existing_words, existing_word_counters, existing_word_bits)

SetGame(g) ==
    /\ pool' = g.pool
    /\ existing_words' = g.existing_words
    /\ existing_word_counters' = g.existing_word_counters
    /\ existing_word_bits' = g.existing_word_bits

\* GameState.__init__
Init ==
    /\ trie = EmptyTrie
    /\ word_bits = <<>>
    /\ pool = <<>>
    /\ existing_words = <<>>
    /\ existing_word_counters = <<>>
    /\ existing_word_bits = <<>>
    /\ loads = 0
    /\ op = [name |-> "__init__", arg |-> <<>>]
    /\ before = GS(<<>>, <<>>, <<>>, <<>>)
    /\ ret = Returned(None)

\* GameState.load_word on a trie and a word_bits dict: <<trie, word_bits>>
load_word(tw, line) ==
    LET word == lower(strip(line))
    IN  <<insert(tw[1], word), dict_set(tw[2], word, calculate_word_bits(word))>>

RECURSIVE load_words_from(_, _, _)
load_words_from(tw, words, i) ==
    IF i > Len(words) THEN tw
    ELSE load_words_from(load_word(tw, words[i]), words, i + 1)

\* GameState.load_words / load_wordlist
load_words(words) ==
    /\ loads < MaxLoads
    /\ LET tw == load_words_from(<<trie, word_bits>>, words, 1)
       IN  trie' = tw[1] /\ word_bits' = tw[2]
    /\ loads' = loads + 1
    /\ op' = [name |-> "load_words", arg |-> words]
    /\ before' = Game
    /\ ret' = Returned(None)
    /\ UNCHANGED game

\* GameState.load_word, called with one line
load_word_call(line) ==
    /\ LET tw == load_word(<<trie, word_bits>>, line)
       IN  trie' = tw[1] /\ word_bits' = tw[2]
    /\ op' = [name |-> "load_word", arg |-> line]
    /\ before' = Game
    /\ ret' = Returned(None)
    /\ UNCHANGED <<loads, game>>

\* in_trie(state.trie, word)
in_trie_call(word) ==
    /\ op' = [name |-> "in_trie", arg |-> word]
    /\ before' = Game
    /\ ret' = Returned(in_trie(trie, word))
    /\ UNCHANGED <<trie, word_bits, loads, game>>

\* the pool after GameState.add_letters(letters)
add_letters_to(p, letters) == p \o lower(letters)

\* GameState.add_letters
add_letters(letters) ==
    /\ Len(pool) + Len(letters) <= MaxPool
    /\ pool' = add_letters_to(pool, letters)
    /\ op' = [name |-> "add_letters", arg |-> letters]
    /\ before' = Game
    /\ ret' = Returned(None)
    /\ UNCHANGED <<trie, word_bits, loads, existing_words,
                   existing_word_counters, existing_word_bits>>

\* GameState.add_existing_word: [game, exc]; letter_to_bit raises KeyError on a
\* character that is no lower-case letter, after the list and the counters changed
add_existing_word_to(g, word) ==
    LET g1 == [g EXCEPT !.existing_words = Append(@, word),
                        !.existing_word_counters = dict_set(@, word, Counter(word))]
    IN  IF bits_key_error(word)
        THEN [game |-> g1, exc |-> "KeyError"]
        ELSE [game |-> [g1 EXCEPT !.existing_word_bits =
                                      dict_set(@, word, calculate_word_bits(word))],
              exc |-> "none"]

add_existing_word(word) ==
    /\ Len(existing_words) < MaxExisting
    /\ LET r == add_existing_word_to(Game, word)
       IN  /\ SetGame(r.game)
           /\ ret' = IF r.exc = "none" THEN Returned(None) ELSE Raised(r.exc)
    /\ op' = [name |-> "add_existing_word", arg |-> word]
    /\ before' = Game
    /\ UNCHANGED <<trie, word_bits, loads>>

\* Word.__init__: an empty pool_letters list falls back to list(word)
Word(word, existing_word, pool_letters) ==
    [word |-> word, existing_word |-> existing_word,
     pool_letters |-> IF pool_letters = <<>> THEN word ELSE pool_letters]

\* `if word.existing_word:` (None and the empty string are falsy)
truthy(existing_word) == existing_word # None /\ existing_word # <<>>

\* sorted(words, key=len, reverse=True): stable, longest first
RECURSIVE longest_first(_, _)
longest_first(words, n) ==
    LET here == SelectSeq(words, LAMBDA w : Len(w.word) = n)
    IN  IF n = 0 THEN here ELSE here \o longest_first(words, n - 1)

max_len(words) ==
    IF words = <<>> THEN 0
    ELSE CHOOSE n \in {Len(words[i].word) : i \in DOMAIN words} :
             \A i \in DOMAIN words : Len(words[i].word) <= n

sorted_by_len(words) == longest_first(words, max_len(words))

\* the list comprehension of get_possible_words, line 176
new_letters_of(p, word, existing_counter) ==
    LET word_counter == Counter(word)
    IN  SelectSeq(word, LAMBDA l : l \in Range(p)
                      /\ count_of(word_counter, l) > count_of(existing_counter, l))

\* the filter of get_possible_words on one word yielded for an existing word
extends_existing(g, wb, word, existing_word) ==
    LET existing_bits == g.existing_word_bits[existing_word]
        existing_counter == g.existing_word_counters[existing_word]
        word_counter == Counter(word)
    IN  /\ Len(word) > Len(existing_word)
        /\ bit_and(wb[word], existing_bits) = existing_bits
        /\ \A letter \in DOMAIN existing_counter :
              count_of(word_counter, letter) >= existing_counter[letter]
        /\ new_letters_of(g.pool, word, existing_counter) # <<>>

\* the candidates get_possible_words appends for one existing word
possible_from_existing(g, t, wb, existing_word) ==
    LET combined_letters == g.pool \o existing_word
        found == SelectSeq(anagram(t, combined_letters),
                           LAMBDA word : extends_existing(g, wb, word, existing_word))
    IN  [i \in DOMAIN found |->
            Word(found[i], existing_word,
                 new_letters_of(g.pool, found[i],
                                g.existing_word_counters[existing_word]))]

RECURSIVE possible_from_all(_, _, _, _)
possible_from_all(g, t, wb, i) ==
    IF i > Len(g.existing_words) THEN <<>>
    ELSE possible_from_existing(g, t, wb, g.existing_words[i])
            \o possible_from_all(g, t, wb, i + 1)

\* GameState.get_possible_words: what it returns or raises
get_possible_words_of(g, t, wb) ==
    IF trie_is_empty(t) THEN Raised(TrieEmptyError)
    ELSE IF \E i \in DOMAIN g.existing_words :
                \/ g.existing_words[i] \notin DOMAIN g.existing_word_bits
                \/ g.existing_words[i] \notin DOMAIN g.existing_word_counters
    THEN Raised("KeyError")
    ELSE LET from_pool == anagram(t, g.pool)
             possible == [i \in DOMAIN from_pool |->
                             Word(from_pool[i], None, from_pool[i])]
                         \o possible_from_all(g, t, wb, 1)
         IN  Returned(sorted_by_len(possible))

get_possible_words ==
    /\ op' = [name |-> "get_possible_words", arg |-> <<>>]
    /\ before' = Game
    /\ ret' = get_possible_words_of(Game, trie, word_bits)
    /\ UNCHANGED <<trie, word_bits, loads, game>>

\* the pool loop of remove_word, lines 131-138, from pool index i on
RECURSIVE take_from_pool(_, _, _)
take_from_pool(p, letter_counts, i) ==
    IF i > Len(p) THEN <<>>
    ELSE LET letter == p[i]
         IN  IF letter \in DOMAIN letter_counts /\ letter_counts[letter] > 0
             THEN take_from_pool(p, [letter_counts EXCEPT ![letter] = @ - 1], i + 1)
             ELSE <<letter>> \o take_from_pool(p, letter_counts, i + 1)

\* GameState.remove_word: the game state after claiming candidate w
remove_word_from(g, w) ==
    LET g1 == IF truthy(w.existing_word)
              THEN [g EXCEPT
                      !.existing_words = list_remove(@, w.existing_word),
                      !.existing_word_counters = dict_del(@, w.existing_word),
                      !.existing_word_bits = dict_del(@, w.existing_word)]
              ELSE g
    IN  [g1 EXCEPT
            !.existing_words = Append(@, w.word),
            !.existing_word_counters = dict_set(@, w.word, Counter(w.word)),
            !.existing_word_bits = dict_set(@, w.word, calculate_word_bits(w.word)),
            !.pool = take_from_pool(g.pool, Counter(w.pool_letters), 1)]

\* the candidates a player can claim: the list get_possible_words returns now
Candidates ==
    LET r == get_possible_words_of(Game, trie, word_bits)
    IN  IF r.exc = "none" THEN Range(r.val) ELSE {}

remove_word(w) ==
    /\ truthy(w.existing_word) \/ Len(existing_words) < MaxExisting
    /\ SetGame(remove_word_from(Game, w))
    /\ op' = [name |-> "remove_word", arg |-> w]
    /\ before' = Game
    /\ ret' = Returned(None)
    /\ UNCHANGED <<trie, word_bits, loads>>

\* delete_letters dropping every occurrence of each letter, not the first alone
RECURSIVE delete_every_occurrence(_, _)
delete_every_occurrence(p, letters) ==
    IF letters = <<>> THEN p
    ELSE delete_every_occurrence(SelectSeq(p, LAMBDA x : x # Head(letters)),
                                 Tail(letters))

\* the loop of delete_letters over the characters of letters.lower()
RECURSIVE delete_letters_from(_, _)
delete_letters_from(p, letters) ==
    IF letters = <<>> THEN p
    ELSE LET letter == Head(letters)
         IN  delete_letters_from(
                 IF letter \in Range(p) THEN list_remove(p, letter) ELSE p,
                 Tail(letters))

\* GameState.delete_letters
delete_letters(letters) ==
    /\ pool' = delete_letters_from(pool, lower(letters))
    /\ op' = [name |-> "delete_letters", arg |-> letters]
    /\ before' = Game
    /\ ret' = Returned(None)
    /\ UNCHANGED <<trie, word_bits, loads, existing_words,
                   existing_word_counters, existing_word_bits>>

\* SCRABBLE_LETTER_FREQUENCY, in the order the dict literal lists its items
SCRABBLE_LETTER_FREQUENCY ==
    << <<"e", 12>>, <<"a", 9>>, <<"i", 9>>, <<"o", 8>>, <<"n", 6>>, <<"r", 6>>,
       <<"t", 6>>, <<"l", 4>>, <<"s", 4>>, <<"u", 4>>, <<"d", 4>>, <<"g", 3>>,
       <<"b", 2>>, <<"c", 2>>, <<"m", 2>>, <<"p", 2>>, <<"f", 2>>, <<"h", 2>>,
       <<"v", 2>>, <<"w", 2>>, <<"y", 2>>, <<"k", 1>>, <<"j", 1>>, <<"x", 1>>,
       <<"q", 1>>, <<"z", 1>> >>

\* sorted(items, key=lambda x: x[1], reverse=True): stable, highest count first
RECURSIVE highest_first(_, _)
highest_first(items, n) ==
    LET here == SelectSeq(items, LAMBDA x : x[2] = n)
    IN  IF n = 0 THEN here ELSE here \o highest_first(items, n - 1)

sorted_by_frequency ==
    LET items == SCRABBLE_LETTER_FREQUENCY
        top == CHOOSE n \in {items[i][2] : i \in DOMAIN items} :
                   \A i \in DOMAIN items : items[i][2] <= n
        sorted == highest_first(items, top)
    IN  [i \in DOMAIN sorted |-> sorted[i][1]]

\* `if letters_checked >= 11: break`
LettersChecked == 11

\* considered_letters without the `break` after LettersChecked letters
considered_without_break(p) ==
    SelectSeq(sorted_by_frequency, LAMBDA letter : letter \notin Range(p))

\* the letters the loop of get_potential_words gets to: the first LettersChecked
\* letters, most frequent first, that are not in the pool
considered_letters(p) ==
    LET absent == SelectSeq(sorted_by_frequency, LAMBDA letter : letter \notin Range(p))
    IN  SubSeq(absent, 1, IF Len(absent) < LettersChecked THEN Len(absent)
                          ELSE LettersChecked)

\* check_and_add_word: the entries <<missing_letter, Word>> it adds (none or one);
\* avail_bits is its pool_bits parameter
check_and_add_word(g, wb, word, avail_bits, existing_word) ==
    LET w_bits == wb[word]
        existing_bits == IF truthy(existing_word)
                         THEN g.existing_word_bits[existing_word] ELSE 0
        diff_bits == bit_and_not(w_bits, avail_bits)
        new_letters ==
            SelectSeq(word, LAMBDA l :
                \/ ~truthy(existing_word)
                \/ l \notin Range(existing_word)
                \/ bit_and(letter_to_bit[l], bit_and_not(w_bits, existing_bits)) # 0)
    IN  IF truthy(existing_word)
            /\ (bit_and(w_bits, existing_bits) # existing_bits \/ w_bits = existing_bits)
        THEN <<>>
        ELSE IF bit_count(diff_bits) = 1 /\ new_letters # <<>>
        THEN << <<Alphabet[bit_length(diff_bits)], Word(word, existing_word, new_letters)>> >>
        ELSE <<>>

RECURSIVE check_all(_, _, _, _, _, _)
check_all(g, wb, words, avail_bits, existing_word, i) ==
    IF i > Len(words) THEN <<>>
    ELSE check_and_add_word(g, wb, words[i], avail_bits, existing_word)
            \o check_all(g, wb, words, avail_bits, existing_word, i + 1)

\* lines 224-231 for one letter and one existing word
potential_from_existing(g, t, wb, pool_bits, letter, existing_word) ==
    LET combined_letters == g.pool \o existing_word
    IN  IF letter \in Range(combined_letters) THEN <<>>
        ELSE LET combined_bits == bit_or(pool_bits, g.existing_word_bits[existing_word])
                 longer == SelectSeq(anagram(t, Append(combined_letters, letter)),
                                     LAMBDA word : Len(word) > Len(existing_word))
             IN  check_all(g, wb, longer, combined_bits, existing_word, 1)

RECURSIVE potential_from_all(_, _, _, _, _, _)
potential_from_all(g, t, wb, pool_bits, letter, i) ==
    IF i > Len(g.existing_words) THEN <<>>
    ELSE potential_from_existing(g, t, wb, pool_bits, letter, g.existing_words[i])
            \o potential_from_all(g, t, wb, pool_bits, letter, i + 1)

\* lines 217-231 for one letter that is not in the pool
potential_for_letter(g, t, wb, pool_bits, letter) ==
    check_all(g, wb, anagram(t, Append(g.pool, letter)), pool_bits, None, 1)
        \o potential_from_all(g, t, wb, pool_bits, letter, 1)

RECURSIVE potential_entries(_, _, _, _, _, _)
potential_entries(g, t, wb, pool_bits, letters, i) ==
    IF i > Len(letters) THEN <<>>
    ELSE potential_for_letter(g, t, wb, pool_bits, letters[i])
            \o potential_entries(g, t, wb, pool_bits, letters, i + 1)

\* line 228 raises KeyError for an existing word that has no cached bitmask
potential_key_error(g) ==
    \E i \in DOMAIN considered_letters(g.pool), j \in DOMAIN g.existing_words :
        /\ considered_letters(g.pool)[i] \notin Range(g.pool \o g.existing_words[j])
        /\ g.existing_words[j] \notin DOMAIN g.existing_word_bits

\* GameState.get_potential_words: what it returns (missing letter -> list of
\* Word, longest first) or raises
get_potential_words_of(g, t, wb) ==
    IF trie_is_empty(t) THEN Raised(TrieEmptyError)
    ELSE IF bits_key_error(g.pool) \/ potential_key_error(g) THEN Raised("KeyError")
    ELSE LET pool_bits == calculate_word_bits(g.pool)
             entries == potential_entries(g, t, wb, pool_bits,
                                          considered_letters(g.pool), 1)
             keys == {entries[i][1] : i \in DOMAIN entries}
             under(letter) == SelectSeq(entries, LAMBDA e : e[1] = letter)
         IN  Returned([letter \in keys |->
                 sorted_by_len([i \in DOMAIN under(letter) |-> under(letter)[i][2]])])

get_potential_words ==
    /\ op' = [name |-> "get_potential_words", arg |-> <<>>]
    /\ before' = Game
    /\ ret' = get_potential_words_of(Game, trie, word_bits)
    /\ UNCHANGED <<trie, word_bits, loads, game>>

-----------------------------------------------------------------------------
(* Serialization.  The exported string is named by what base64.b64decode,     *)
(* bytes.decode and json.loads make of it: no base64 ("not_base64"), base64   *)
(* of bytes that are no UTF-8 ("not_utf8"), of text that is no JSON           *)
(* ("not_json"), or of the text of a JSON value ("json").                     *)

JsonString(s) == [type |-> "string", chars |-> s]
JsonArray(items) == [type |-> "array", items |-> items]
JsonObject(members) == [type |-> "object", members |-> members]
JsonNumber(n) == [type |-> "number", n |-> n]
JsonNull == [type |-> "null"]

\* base64.b64encode(json.dumps(value).encode('utf-8')).decode('utf-8')
Exported(value) == [kind |-> "json", value |-> value]

\* GameState.serialize
serialize_of(g) ==
    Exported(JsonObject(
        [k \in {"letters", "words"} |->
            IF k = "letters" THEN JsonString(g.pool)
            ELSE JsonArray([i \in DOMAIN g.existing_words |->
                               JsonString(g.existing_words[i])])]))

serialize ==
    /\ op' = [name |-> "serialize", arg |-> <<>>]
    /\ before' = Game
    /\ ret' = Returned(serialize_of(Game))
    /\ UNCHANGED <<trie, word_bits, loads, game>>

\* add_existing_words on a list of JSON strings, from item i on: [game, exc]
RECURSIVE add_existing_words_to(_, _, _)
add_existing_words_to(g, words, i) ==
    IF i > Len(words) THEN [game |-> g, exc |-> "none"]
    ELSE LET r == add_existing_word_to(g, words[i].chars)
         IN  IF r.exc # "none" THEN r
             ELSE add_existing_words_to(r.game, words, i + 1)

\* the exceptions the except clause of deserialize turns into the ValueError
Caught == {"binascii.Error", "JSONDecodeError", "KeyError"}

\* strings pasted in for import
ImportInputs ==
    { [kind |-> "not_base64"],
      [kind |-> "not_utf8"],
      [kind |-> "not_json"],
      Exported(JsonArray(<<>>)),
      Exported(JsonNull),
      Exported(JsonObject(<<>>)),
      Exported(JsonObject([k \in {"letters"} |-> JsonString(<<"e">>)])),
      Exported(JsonObject([k \in {"words"} |-> JsonArray(<<JsonString(<<"b","e">>)>>)])),
      Exported(JsonObject([k \in {"letters", "words"} |->
          IF k = "letters" THEN JsonString(<<"E","1">>)
          ELSE JsonArray(<<JsonString(<<"b","e">>)>>)])),
      Exported(JsonObject([k \in {"letters", "words"} |->
          IF k = "letters" THEN JsonString(<<"e">>)
          ELSE JsonArray(<<JsonString(<<"B","e">>)>>)])),
      Exported(JsonObject([k \in {"letters", "words"} |->
          IF k = "letters" THEN JsonNumber(5) ELSE JsonArray(<<>>)])) }

\* the body of the try block of deserialize: [game, exc]
deserialize_try(g, data_str) ==
    IF data_str.kind = "not_base64" THEN [game |-> g, exc |-> "binascii.Error"]
    ELSE IF data_str.kind = "not_utf8" THEN [game |-> g, exc |-> "UnicodeDecodeError"]
    ELSE IF data_str.kind = "not_json" THEN [game |-> g, exc |-> "JSONDecodeError"]
    ELSE LET data == data_str.value
         IN  IF data.type # "object" THEN [game |-> g, exc |-> "TypeError"]
             ELSE IF "letters" \notin DOMAIN data.members
             THEN [game |-> g, exc |-> "KeyError"]
             ELSE IF data.members["letters"].type # "string"
             THEN [game |-> g, exc |-> "TypeError"]
             ELSE LET g1 == [g EXCEPT !.pool =
                                add_letters_to(@, data.members["letters"].chars)]
                  IN  IF "words" \notin DOMAIN data.members
                      THEN [game |-> g1, exc |-> "KeyError"]
                      ELSE IF data.members["words"].type # "array"
                      THEN [game |-> g1, exc |-> "TypeError"]
                      ELSE add_existing_words_to(g1, data.members["words"].items, 1)

\* GameState.deserialize: [game, ret]
deserialize_of(g, data_str) ==
    LET r == deserialize_try(g, data_str)
    IN  [game |-> r.game,
         ret |-> IF r.exc = "none" THEN Returned("self")
                 ELSE IF r.exc \in Caught THEN Raised(InvalidFormatError)
                 ELSE Raised(r.exc)]

deserialize(data_str) ==
    LET r == deserialize_of(Game, data_str)
    IN  /\ Len(r.game.pool) <= MaxPool
        /\ Len(r.game.existing_words) <= MaxExisting
        /\ SetGame(r.game)
        /\ op' = [name |-> "deserialize", arg |-> data_str]
        /\ before' = Game
        /\ ret' = r.ret
        /\ UNCHANGED <<trie, word_bits, loads>>

\* GameState(): a freshly constructed game state
FreshGame == GS(<<>>, <<>>, <<>>, <<>>)

\* export, then import into a fresh GameState (test_serialize_deserialize_roundtrip):
\* the call's outcome and the fresh state's fields afterwards
roundtrip ==
    /\ op' = [name |-> "roundtrip", arg |-> <<>>]
    /\ before' = Game
    /\ ret' = LET r == deserialize_of(FreshGame, serialize_of(Game))
              IN  [exc |-> r.ret.exc, val |-> r.game]
    /\ UNCHANGED <<trie, word_bits, loads, game>>

\* iterating anagram(game_state, letters): the words it yields, or the ValueError
anagram_result(t, letters) ==
    IF trie_is_empty(t) THEN Raised(TrieEmptyError)
    ELSE Returned(anagram(t, letters))

anagram_call(letters) ==
    /\ op' = [name |-> "anagram", arg |-> letters]
    /\ before' = Game
    /\ ret' = anagram_result(trie, letters)
    /\ UNCHANGED <<trie, word_bits, loads, game>>

\* lists of at most n letters drawn from S
RECURSIVE lists_of(_, _)
lists_of(S, n) ==
    IF n = 0 THEN {<<>>}
    ELSE lists_of(S, n - 1) \cup
         {Append(s, c) : s \in {x \in lists_of(S, n - 1) : Len(x) = n - 1}, c \in S}

AnagramLetters == {"b", "e", "s", "t"}

-----------------------------------------------------------------------------
(* Specifications *)

\* a game: the wordlist is loaded, letters come and go, words are claimed and the
\* two discovery queries are asked
Next ==
    \/ \E words \in WordLists : load_words(words)
    \/ \E letters \in LetterInputs : add_letters(letters)
    \/ \E letters \in DeleteInputs : delete_letters(letters)
    \/ \E word \in ExistingInputs : add_existing_word(word)
    \/ \E w \in Candidates : remove_word(w)
    \/ get_possible_words
    \/ get_potential_words

Spec == Init /\ [][Next]_vars

\* the pool and its two editing operations
NextPool ==
    \/ \E letters \in PoolInputs : add_letters(letters)
    \/ \E letters \in DeleteInputs : delete_letters(letters)
    \/ \E word \in ExistingInputs : add_existing_word(word)

SpecPool == Init /\ [][NextPool]_vars

\* export and import
NextIO ==
    \/ \E letters \in PoolInputs : add_letters(letters)
    \/ \E word \in ExistingInputs : add_existing_word(word)
    \/ serialize
    \/ roundtrip
    \/ \E data_str \in ImportInputs : deserialize(data_str)

SpecIO == Init /\ [][NextIO]_vars

\* the anagram search over the loaded dictionaries
NextAnagram ==
    \/ \E words \in WordLists \cup {BlankWordList} : load_words(words)
    \/ \E letters \in lists_of(AnagramLetters, MaxLetters) : anagram_call(letters)

SpecAnagram == Init /\ [][NextAnagram]_vars

\* the board is set up and the missing-letter query is asked
NextPotential ==
    \/ \E words \in WordLists : load_words(words)
    \/ \E letters \in LetterInputs : add_letters(letters)
    \/ \E word \in ExistingInputs : add_existing_word(word)
    \/ get_potential_words

SpecPotential == Init /\ [][NextPotential]_vars

\* the trie: words are loaded one by one, in any order and more than once, and
\* membership is asked
NextTrie ==
    \/ \E line \in TrieLines : load_word_call(line)
    \/ \E word \in lists_of(TrieLetters, MaxLetters) : in_trie_call(word)

SpecTrie == Init /\ [][NextTrie]_vars

-----------------------------------------------------------------------------
(* Notions the properties are stated in *)

\* how often letter c occurs in the list or word s
occurrences(s, c) == Cardinality({i \in DOMAIN s : s[i] = c})

\* a's letters are a sub-multiset of b's
sub_multiset(a, b) == \A c \in Range(a) : occurrences(a, c) <= occurrences(b, c)

\* how often c occurs in all the words of a list together
RECURSIVE occurrences_in_words(_, _)
occurrences_in_words(words, c) ==
    IF words = <<>> THEN 0
    ELSE occurrences(Head(words), c) + occurrences_in_words(Tail(words), c)

\* how often c occurs in the pool and the existing words of g together
letters_in(g, c) == occurrences(g.pool, c) + occurrences_in_words(g.existing_words, c)

\* the words loaded into the dictionary
Dictionary == DOMAIN word_bits

\* the letters a candidate takes beyond the existing word it builds on
base_word(w) == IF w.existing_word = None THEN <<>> ELSE w.existing_word
taken(w, c) == occurrences(w.word, c) - occurrences(base_word(w), c)

\* W holds every letter at least as often as E, and some letter more often
strict_superset(W, E) == sub_multiset(E, W) /\ Len(W) > Len(E)

\* the dictionary holds a word of one or more letters
has_word == \E w \in Dictionary : w # <<>>

\* what the last query handed back: nothing at all when it raised
returned == IF ret.exc = "none" THEN Range(ret.val) ELSE {}
listed(L) == IF ret.exc = "none" /\ L \in DOMAIN ret.val THEN Range(ret.val[L]) ELSE {}

\* no candidate of get_possible_words / get_potential_words exists in this state
no_possible_word ==
    /\ \A W \in Dictionary : ~sub_multiset(W, pool)
    /\ \A W \in Dictionary, E \in Range(existing_words) :
          ~(strict_superset(W, E) /\ sub_multiset(W, pool \o E))
no_potential_word ==
    \A W \in Dictionary, E \in Range(existing_words) \cup {<<>>}, c \in Range(Alphabet) :
        ~sub_multiset(W, (pool \o E) \o <<c>>)

\* a is b with some elements left out, the others in the same order
RECURSIVE is_subsequence(_, _)
is_subsequence(a, b) ==
    IF a = <<>> THEN TRUE
    ELSE IF b = <<>> THEN FALSE
    ELSE IF Head(a) = Head(b) THEN is_subsequence(Tail(a), Tail(b))
    ELSE is_subsequence(a, Tail(b))

Max(a, b) == IF a >= b THEN a ELSE b

\* the pool filtered to alphabetic characters and lower-cased
filter_alpha_lower(p) == lower(SelectSeq(p, isalpha))

\* an import string that is no base64, no JSON, or lacks `letters` or `words`
is_garbage(d) ==
    \/ d.kind # "json"
    \/ d.value.type # "object"
    \/ "letters" \notin DOMAIN d.value.members
    \/ "words" \notin DOMAIN d.value.members

-----------------------------------------------------------------------------
(* Properties *)

\* C1: claiming a candidate that get_possible_words returned conserves letters:
\* pool plus existing words hold every letter as often after remove_word as
\* before it, and the pool loses exactly the letters the candidate takes from it.
C1_ClaimConservesLetters ==
    op.name = "remove_word" =>
        \A c \in Range(Alphabet) :
            /\ letters_in(Game, c) = letters_in(before, c)
            /\ occurrences(pool, c) = occurrences(before.pool, c) - taken(op.arg, c)

\* C2: the existing-words list and its two caches are in lock-step: every listed
\* word has a counter and a bitmask, every cached key is listed, and each cached
\* value is the letter counts / letter set of its word.
C2_LockStep ==
    /\ \A i \in DOMAIN existing_words :
          /\ existing_words[i] \in DOMAIN existing_word_counters
          /\ existing_words[i] \in DOMAIN existing_word_bits
    /\ DOMAIN existing_word_counters \subseteq Range(existing_words)
    /\ DOMAIN existing_word_bits \subseteq Range(existing_words)
    /\ \A w \in DOMAIN existing_word_counters, c \in Range(Alphabet) :
          count_of(existing_word_counters[w], c) = occurrences(w, c)
    /\ \A w \in DOMAIN existing_word_bits, i \in DOMAIN Alphabet :
          has_bit(existing_word_bits[w], i - 1) <=> Alphabet[i] \in Range(w)

\* C5: the pool_letters of a returned candidate are exactly what it takes from the
\* pool: the word's own letters without an existing word, and otherwise the word's
\* letters beyond the existing word's, non-empty and available in the pool.
C5_PoolLettersExact ==
    (op.name = "get_possible_words" /\ ret.exc = "none") =>
        \A k \in DOMAIN ret.val :
            LET w == ret.val[k]
            IN  IF w.existing_word = None
                THEN \A c \in Range(Alphabet) :
                        occurrences(w.pool_letters, c) = occurrences(w.word, c)
                ELSE /\ \A c \in Range(Alphabet) :
                            occurrences(w.pool_letters, c) = taken(w, c)
                     /\ w.pool_letters # <<>>
                     /\ sub_multiset(w.pool_letters, pool)

\* the anagram search yields exactly the dictionary words within the letters given,
\* each once
anagram_exact ==
    /\ ret.exc = "none"
    /\ \A w \in Dictionary :
          sub_multiset(w, op.arg) =>
              Cardinality({i \in DOMAIN ret.val : ret.val[i] = w}) = 1
    /\ \A i \in DOMAIN ret.val :
          ret.val[i] \in Dictionary /\ sub_multiset(ret.val[i], op.arg)

\* C3 as stated: for every non-empty dictionary and every letter multiset M,
\* anagram(M) yields each dictionary word that is a sub-multiset of M exactly
\* once, and nothing else.
C3_AnagramExact_AnyDictionary ==
    (op.name = "anagram" /\ Dictionary # {}) => anagram_exact

\* C3 as amended: the same for every dictionary that holds at least one word of
\* one or more letters.
C3_AnagramExact ==
    (op.name = "anagram" /\ has_word) => anagram_exact

\* C3, reached: from e,b,e the search yields both "be" and its extension "bee",
\* and leaves out "bet", which is in the dictionary
C3_Witness ==
    /\ op.name = "anagram" /\ op.arg = <<"e","b","e">>
    /\ <<"b","e","t">> \in Dictionary
    /\ ret.exc = "none"
    /\ Range(ret.val) = {<<"b","e">>, <<"b","e","e">>}

\* C4: with a dictionary loaded, get_possible_words returns exactly the formable
\* candidates: a word without existing word iff it is a dictionary word within the
\* pool, and (W, E) iff E is an existing word, W a dictionary word that is a strict
\* superset by count of E, and W is within pool + E.
C4_PossibleWordsExact ==
    (op.name = "get_possible_words" /\ has_word) =>
        /\ \A w \in returned :
              /\ w.word \in Dictionary
              /\ w.existing_word = None \/ w.existing_word \in Range(existing_words)
        /\ \A W \in Dictionary :
              (\E w \in returned : w.word = W /\ w.existing_word = None)
                  <=> sub_multiset(W, pool)
        /\ \A W \in Dictionary, E \in Range(existing_words) :
              (\E w \in returned : w.word = W /\ w.existing_word = E)
                  <=> (strict_superset(W, E) /\ sub_multiset(W, pool \o E))

\* C6: with a dictionary loaded, a candidate without existing word listed under L
\* needs exactly one more letter, L: L is not in the pool, the word is a dictionary
\* word not formable from the pool and formable from the pool plus one L; and
\* every dictionary word that contains a considered letter L and is within
\* pool + L is listed under L.
C6_PotentialWordsOneLetter ==
    (op.name = "get_potential_words" /\ has_word) =>
        /\ \A L \in Range(Alphabet) : \A w \in listed(L) :
              w.existing_word = None =>
                  /\ L \notin Range(pool)
                  /\ w.word \in Dictionary
                  /\ ~sub_multiset(w.word, pool)
                  /\ sub_multiset(w.word, Append(pool, L))
        /\ \A L \in Range(considered_letters(pool)), W \in Dictionary :
              (L \in Range(W) /\ sub_multiset(W, Append(pool, L))) =>
                  \E w \in listed(L) : w.word = W /\ w.existing_word = None

\* C7: exporting the game and importing it into a fresh game state gives the pool
\* filtered to letters and lower-cased, in order, the same existing words, and
\* their caches filled.
C7_RoundTrip ==
    op.name = "roundtrip" =>
        /\ ret.exc = "none"
        /\ ret.val.pool = filter_alpha_lower(pool)
        /\ ret.val.existing_words = existing_words
        /\ \A i \in DOMAIN existing_words :
              /\ existing_words[i] \in DOMAIN ret.val.existing_word_counters
              /\ existing_words[i] \in DOMAIN ret.val.existing_word_bits

\* C8: deserialize answers every garbage input (no base64, no JSON, a JSON value
\* without `letters` or `words`, a JSON value that is no object) with the one
\* invalid-input-format ValueError.
C8_GarbageRejectedUniformly ==
    (op.name = "deserialize" /\ is_garbage(op.arg)) => ret = Raised(InvalidFormatError)

\* C9: the two queries raise the 'Trie is empty' error iff no dictionary word has
\* been loaded, and with a dictionary loaded a state that forms no word gets an
\* empty list / an empty mapping, not an error.
C9_EmptyDictionaryPrecondition ==
    /\ op.name \in {"get_possible_words", "get_potential_words"} =>
          (ret.exc = TrieEmptyError <=> Dictionary = {})
    /\ (op.name = "get_possible_words" /\ Dictionary # {} /\ no_possible_word) =>
          (ret.exc = "none" /\ ret.val = <<>>)
    /\ (op.name = "get_potential_words" /\ Dictionary # {} /\ no_potential_word) =>
          (ret.exc = "none" /\ DOMAIN ret.val = {})

\* C10: delete_letters(s) leaves of every letter max(0, count before - count in
\* lower-cased s), keeps the order of the letters that remain, raises nothing and
\* leaves existing_words and its two caches alone.
C10_DeleteLetters ==
    op.name = "delete_letters" =>
        /\ \A c \in Range(before.pool) \cup Range(pool) \cup Range(lower(op.arg)) :
              occurrences(pool, c) =
                  Max(0, occurrences(before.pool, c) - occurrences(lower(op.arg), c))
        /\ is_subsequence(pool, before.pool)
        /\ ret = Returned(None)
        /\ existing_words = before.existing_words
        /\ existing_word_counters = before.existing_word_counters
        /\ existing_word_bits = before.existing_word_bits

\* C10, reached: "ee" asked of the pool b,e takes the one e and skips the second,
\* with an existing word on the board
C10_Witness ==
    /\ op.name = "delete_letters" /\ op.arg = <<"e","e">>
    /\ before.pool = <<"b","e">> /\ pool = <<"b">>
    /\ existing_words # <<>>

\* a is a proper prefix of b
proper_prefix(a, b) == Len(a) < Len(b) /\ SubSeq(b, 1, Len(a)) = a

\* C11: the trie holds exactly the inserted words: in_trie(W) is true iff W was
\* inserted, so a proper prefix or an extension of an inserted word that was not
\* inserted itself is absent; and a node is terminal iff an inserted word traces
\* the path to it.
C11_TrieRoundTrip ==
    /\ op.name = "in_trie" => (ret.val = TRUE <=> op.arg \in Dictionary)
    /\ \A node \in DOMAIN trie : trie[node].is_word <=> node \in Dictionary
    /\ \A W \in Dictionary : in_trie(trie, W)
    /\ \A W \in lists_of(TrieLetters, MaxLetters) \ Dictionary : ~in_trie(trie, W)

\* C11, reached: "be", "bee" and "bet" were inserted; "b", a proper prefix of
\* "be" and a node of the trie, was not and is reported absent, and so is the
\* extension "beb"
C11_Witness ==
    /\ op.name = "in_trie" /\ op.arg = <<"b">> /\ ret.val = FALSE
    /\ {<<"b","e">>, <<"b","e","e">>, <<"b","e","t">>} \subseteq Dictionary
    /\ <<"b">> \in DOMAIN trie /\ <<"b">> \notin Dictionary
    /\ proper_prefix(<<"b">>, <<"b","e">>)
    /\ ~in_trie(trie, <<"b","e","b">>)

\* C12: a candidate (W, E) that get_potential_words lists under the missing letter
\* L holds every letter of E at least as often as E does, is longer than E, is
\* within pool + E + one L, and L occurs neither in the pool nor in E.
C12_PotentialFromExistingByCount ==
    op.name = "get_potential_words" =>
        \A L \in Range(Alphabet) : \A w \in listed(L) :
            w.existing_word # None =>
                /\ sub_multiset(w.existing_word, w.word)
                /\ Len(w.word) > Len(w.existing_word)
                /\ sub_multiset(w.word, Append(pool \o w.existing_word, L))
                /\ L \notin Range(pool) \cup Range(w.existing_word)

\* the tiles of a letter in the frequency table, and its place in the table
frequency_of(c) ==
    LET i == CHOOSE i \in DOMAIN SCRABBLE_LETTER_FREQUENCY :
                 SCRABBLE_LETTER_FREQUENCY[i][1] = c
    IN  SCRABBLE_LETTER_FREQUENCY[i][2]
table_place(c) ==
    CHOOSE i \in DOMAIN SCRABBLE_LETTER_FREQUENCY : SCRABBLE_LETTER_FREQUENCY[i][1] = c

\* a comes before b in descending order of frequency, ties in table order
comes_before(a, b) ==
    \/ frequency_of(a) > frequency_of(b)
    \/ frequency_of(a) = frequency_of(b) /\ table_place(a) < table_place(b)

\* how many letters that are not in the pool p come before c
absent_before(c, p) ==
    Cardinality({d \in Range(Alphabet) : d \notin Range(p) /\ comes_before(d, c)})

C14_FailedImportChangesNothing ==
    (op.name = "deserialize" /\ ret.exc # "none") => Game = before

====
